---- MODULE Spec2Model ----
(***************************************************************************)
(* Archive acquisition pipeline of the sync engine                         *)
(* (engine/complex_operations/sync/archive_downloader.rs):                 *)
(*   start_download -> buffered fetches -> process_maps -> gaps_handler    *)
(* and the retry loops of download_archive_maps / download_archive_or_die. *)
(*                                                                         *)
(* A start_download call is a "level": level 0 is the top-level call, and  *)
(* level d+1 is the nested call gaps_handler makes on behalf of the        *)
(* producer task of level d.                                               *)
(***************************************************************************)
EXTENDS Integers, Sequences, FiniteSets, TLC

\* ------------------------------------------------------------------ bounds
\* number of nested start_download levels the model has room for
MaxDepth == 3
\* a top-level call covers at most MaxIdx indices ...
MaxIdx == 3
\* ... and at most MaxWideIdx when its stride is wide enough for a nested
\* gap fill to cover several indices itself
MaxWideIdx == 2
\* failing attempts one fetch of the pipeline may see before it is served
MaxRetries == 1
\* failing attempts the stand-alone download_archive_maps call may see
MaxFails == 2
\* the engine's configured concurrency limit (engine.parallel_tasks)
parallel_tasks == 2

\* ------------------------------------------------------- program constants
ARCHIVE_SLICE == 100

\* ------------------------------------------------------------------ inputs
\* strides a top-level caller passes
TopSteps == {1, 3, 101}
\* first index of a top-level call
TopFroms == {1}
\* an archive served for index n covers n-b .. n+a for <<b, a>> in Spread
Spread == {<<0, 0>>, <<1, 0>>, <<0, 1>>}
\* archives the peers hold that span more than a gap-fill stride: served for
\* every sequence number they hold
WideArchives == {[lo |-> 2, hi |-> 51]}
\* sequence numbers the stand-alone download_archive_maps call is made for
SoloSeqs == {1, 2, 3, 4}

Levels == 0..MaxDepth

\* ---------------------------------------------------------------- BlockMaps
\* Option<T>: None is the empty set, Some(x) the singleton
None == {}
Some(x) == {x}
is_some(o) == o # {}
unwrap(o) == CHOOSE x \in o : TRUE

\* a BlockMaps is the range lo..hi of masterchain sequence numbers it holds
BlockMaps(lo, hi) == [lo |-> lo, hi |-> hi]
\* the parsed archive without a single masterchain block
EmptyMaps == BlockMaps(1, 0)
\* value of a slot that holds no archive (left/right before assignment)
NoMaps == BlockMaps(0, -1)
is_empty(a) == a.lo > a.hi

\* BlockMaps::is_valid(mc_seq_no) -> Option
is_valid(a, mc_seq_no) ==
    IF ~is_empty(a) /\ a.lo <= mc_seq_no /\ mc_seq_no <= a.hi
    THEN Some(TRUE) ELSE None

\* BlockMaps::is_contiguous(left, right) -> Option<bool>
is_contiguous(l, r) ==
    IF is_empty(l) \/ is_empty(r) THEN None ELSE Some(r.lo = l.hi + 1)

\* BlockMaps::get_distance(left, right) -> Option<(u32, u32)>
get_distance(l, r) ==
    IF is_empty(l) \/ is_empty(r) THEN None ELSE Some(<<l.hi + 1, r.lo - 1>>)

\* ---------------------------------------------------------------- transport
\* archives a peer can legitimately serve for sequence number n
ArchivesFor(n) ==
    {BlockMaps(n - s[1], n + s[2]) : s \in {t \in Spread : n - t[1] >= 1}}
        \cup {a \in WideArchives : a.lo <= n /\ n <= a.hi}

\* raw bytes: <<tag, lo, hi>>, "bad" bytes do not parse
Encode(a) == <<"ok", a.lo, a.hi>>
BadBytes == <<"bad", 0, 0>>

\* bytes a peer may return for n: malformed, an archive without masterchain
\* blocks, an archive of another range, or an archive for n
BytesFor(n) ==
    {BadBytes, Encode(EmptyMaps), Encode(BlockMaps(n + 1, n + 1))}
        \cup {Encode(a) : a \in ArchivesFor(n)}

\* outcomes of engine.download_archive(mc_seq_no, peers): Err, Ok(None), Ok(Some(data))
Responses(n) ==
    {[kind |-> "err", data |-> BadBytes], [kind |-> "none", data |-> BadBytes]}
        \cup {[kind |-> "data", data |-> b] : b \in BytesFor(n)}

\* parse_archive(bytes) -> Result<BlockMaps>: Err is None
parse_archive(b) ==
    IF b[1] = "ok" THEN Some(BlockMaps(b[2], b[3])) ELSE None

\* download_archive: passes the engine's result through (logging only)
download_archive(resp) == resp

\* one iteration of download_archive_or_die: Some(bytes) when it returns,
\* None when it loops
download_archive_or_die(resp) ==
    LET res == download_archive(resp)
    IN  IF res.kind = "data" THEN Some(res.data) ELSE None

\* a match without the is_valid guard: any parsed archive breaks the loop
accept_any_parsed(bytes, mc_seq_no) == parse_archive(bytes)

\* a match with the guard inverted: is_valid(..).is_none()
accept_not_valid(bytes, mc_seq_no) ==
    LET p == parse_archive(bytes)
    IN  IF is_some(p) /\ ~is_some(is_valid(unwrap(p), mc_seq_no))
        THEN p ELSE None

\* the match of download_archive_maps on parse_archive(arch):
\* Some(a) when the loop breaks with a, None when it goes round again
accept_archive(bytes, mc_seq_no) ==
    LET p == parse_archive(bytes)
    IN  IF is_some(p) /\ is_some(is_valid(unwrap(p), mc_seq_no))
        THEN p ELSE None

\* one whole attempt of download_archive_maps on a transport response
attempt(resp, mc_seq_no) ==
    LET b == download_archive_or_die(resp)
    IN  IF is_some(b) THEN accept_archive(unwrap(b), mc_seq_no) ELSE None

\* Vec::dedup_by(|a, b| a == b): drops every element equal to its predecessor
RECURSIVE dedup(_)
dedup(s) ==
    IF Len(s) <= 1 THEN s
    ELSE LET d == dedup(SubSeq(s, 1, Len(s) - 1))
         IN  IF s[Len(s)] = d[Len(d)] THEN d ELSE Append(d, s[Len(s)])


\* ------------------------------------------------------------------- state
VARIABLES
    pc,         \* pc[d]: where the code of level d stands
    rng,        \* rng[d]: the step, from, to of the start_download call
    nxt,        \* nxt[d]: next index the strided range iterator yields
    buf,        \* buf[d]: the Buffered queue, fetch futures in index order
    left,       \* left[d]: the left cursor of process_maps
    right,      \* right[d]: the archive just pulled from the stream
    chan,       \* chan[d]: messages in the mpsc channel of process_maps
    parked,     \* parked[d]: the Sender is parked (it used its extra slot)
    batch,      \* batch[d]: archives of the gap fill still to be sent
    coll,       \* coll[d]: archives gaps_handler collected so far
    ret,        \* ret[d]: what start_download returned
    rxDropped,  \* the consumer dropped the top-level stream
    input,      \* input[d]: history of what the stream handed to process_maps
    gaps,       \* gaps[d]: history of gaps_handler calls, one per processed pair
    out,        \* out[d]: history of the archives sent into the channel
    solo        \* a stand-alone download_archive_maps call

vars == <<pc, rng, nxt, buf, left, right, chan, parked, batch, coll, ret,
          rxDropped, input, gaps, out, solo>>

pipeVars == <<pc, rng, nxt, buf, left, right, chan, parked, batch, coll, ret,
              rxDropped, input, gaps, out>>

\* capacity argument of futures::channel::mpsc::channel
ChannelBuffer == 1

\* a fetch future of the Buffered queue: download_archive_maps(.., idx)
Fetch(idx) == [idx |-> idx, st |-> "run", fails |-> 0, arch |-> NoMaps]

NoRange == [step |-> 1, from |-> 0, to |-> 0]
SoloOff == [seq |-> 0, pc |-> "off", reqs |-> 0, fails |-> 0,
            last |-> [kind |-> "none", data |-> BadBytes],
            bytes |-> BadBytes, ret |-> NoMaps]

\* a stride of half a slice, without the minus one
gap_step_half_slice == ARCHIVE_SLICE \div 2

\* the stride gaps_handler passes to start_download
gap_step == (ARCHIVE_SLICE \div 2) - 1

\* (from..to).step_by(step): the indices of a call, in order
RECURSIVE Indices(_, _, _)
Indices(step, from, to) ==
    IF from >= to THEN <<>> ELSE <<from>> \o Indices(step, from + step, to)

\* start_download(step, from, from + n * step) has been called at the top
\* level: the lazy stream is built and process_maps awaits its first archive
InitCall(step, from, n) ==
    /\ rng = [d \in Levels |->
                IF d = 0 THEN [step |-> step, from |-> from, to |-> from + n * step]
                ELSE NoRange]
    /\ nxt = [d \in Levels |-> IF d = 0 THEN from ELSE 0]
    /\ pc = [d \in Levels |-> IF d = 0 THEN "first" ELSE "idle"]
    /\ buf = [d \in Levels |-> <<>>]
    /\ left = [d \in Levels |-> NoMaps]
    /\ right = [d \in Levels |-> NoMaps]
    /\ chan = [d \in Levels |-> <<>>]
    /\ parked = [d \in Levels |-> FALSE]
    /\ batch = [d \in Levels |-> <<>>]
    /\ coll = [d \in Levels |-> <<>>]
    /\ ret = [d \in Levels |-> "pending"]
    /\ rxDropped = FALSE
    /\ input = [d \in Levels |-> <<>>]
    /\ gaps = [d \in Levels |-> <<>>]
    /\ out = [d \in Levels |-> <<>>]
    /\ solo = SoloOff

\* the calls explored: every stride, up to MaxIdx indices (MaxWideIdx for a
\* stride above the gap-fill stride)
Init ==
    \E step \in TopSteps, from \in TopFroms, n \in 0..MaxIdx :
        /\ step > gap_step => n <= MaxWideIdx
        /\ InitCall(step, from, n)

\* ------------------------------------------------- buffered(num_tasks) stream
\* the code of level d is suspended in stream.next().await
Polling(d) == pc[d] \in {"first", "next"}

\* a Buffered that lets one future too many in
CanFillOneMore(d) ==
    /\ Len(buf[d]) <= parallel_tasks
    /\ nxt[d] < rng[d].to

\* a range iterator that takes `to` as inclusive (from..=to)
CanFillInclusive(d) ==
    /\ Len(buf[d]) < parallel_tasks
    /\ nxt[d] <= rng[d].to

\* Buffered::poll_next pulls another future while the queue (running and
\* finished-but-not-yielded) is shorter than num_tasks
CanFill(d) ==
    /\ Len(buf[d]) < parallel_tasks
    /\ nxt[d] < rng[d].to

\* buffer_unordered instead of buffered: any finished future is yielded
ReadyPosUnordered(q) == {k \in 1..Len(q) : q[k].st = "done"}

\* positions of the queue whose output the stream may yield next
ReadyPos(q) == IF q # <<>> /\ q[1].st = "done" THEN {1} ELSE {}

\* a stream that does not end when the iterator stops exactly at `to`
StreamEndStrict(d) == buf[d] = <<>> /\ nxt[d] > rng[d].to

\* the stream is exhausted
StreamEnd(d) == buf[d] = <<>> /\ nxt[d] >= rng[d].to

Remove(q, k) == SubSeq(q, 1, k - 1) \o SubSeq(q, k + 1, Len(q))

\* the range iterator yields its next index and the fetch for it is started
StartFetch(d) ==
    /\ Polling(d)
    /\ CanFill(d)
    /\ buf' = [buf EXCEPT ![d] = Append(@, Fetch(nxt[d]))]
    /\ nxt' = [nxt EXCEPT ![d] = @ + rng[d].step]
    /\ UNCHANGED <<pc, rng, left, right, chan, parked, batch, coll, ret,
                   rxDropped, input, gaps, out, solo>>

\* an attempt of a running fetch fails and download_archive_maps goes round
FetchRetry(d, k) ==
    /\ Polling(d) /\ ~CanFill(d)
    /\ k \in 1..Len(buf[d])
    /\ buf[d][k].st = "run"
    /\ buf[d][k].fails < MaxRetries
    /\ \E resp \in Responses(buf[d][k].idx) :
         /\ ~is_some(attempt(resp, buf[d][k].idx))
         /\ buf' = [buf EXCEPT ![d][k].fails = @ + 1]
    /\ UNCHANGED <<pc, rng, nxt, left, right, chan, parked, batch, coll, ret,
                   rxDropped, input, gaps, out, solo>>

\* an attempt of a running fetch is accepted and download_archive_maps returns
FetchDone(d, k) ==
    /\ Polling(d) /\ ~CanFill(d)
    /\ k \in 1..Len(buf[d])
    /\ buf[d][k].st = "run"
    /\ \E resp \in Responses(buf[d][k].idx) :
         LET r == attempt(resp, buf[d][k].idx)
         IN  /\ is_some(r)
             /\ buf' = [buf EXCEPT ![d][k].st = "done", ![d][k].arch = unwrap(r)]
    /\ UNCHANGED <<pc, rng, nxt, left, right, chan, parked, batch, coll, ret,
                   rxDropped, input, gaps, out, solo>>


\* ------------------------------------------------------------ process_maps
\* a sender that never sees the receiver gone
ClosedNever(d) == FALSE

\* the receiver of level d's channel is gone (only the top-level consumer
\* can drop it: gaps_handler collects a nested stream to its end)
Closed(d) == d = 0 /\ rxDropped

\* first stream.next() yields an archive: it becomes left, the producer task
\* is spawned and start_download returns Some(rx)
FirstSome(d) ==
    /\ pc[d] = "first" /\ ~CanFill(d)
    /\ \E k \in ReadyPos(buf[d]) :
         /\ left' = [left EXCEPT ![d] = buf[d][k].arch]
         /\ input' = [input EXCEPT ![d] = Append(@, [idx |-> buf[d][k].idx, arch |-> buf[d][k].arch])]
         /\ buf' = [buf EXCEPT ![d] = Remove(@, k)]
    /\ pc' = [pc EXCEPT ![d] = "next"]
    /\ ret' = [ret EXCEPT ![d] = "Some"]
    /\ UNCHANGED <<rng, nxt, right, chan, parked, batch, coll, rxDropped,
                   gaps, out, solo>>

\* first stream.next() yields None: "Stream is empty", start_download
\* returns None and no task is spawned
FirstNone(d) ==
    /\ pc[d] = "first"
    /\ StreamEnd(d)
    /\ pc' = [pc EXCEPT ![d] = "none"]
    /\ ret' = [ret EXCEPT ![d] = "None"]
    /\ UNCHANGED <<rng, nxt, buf, left, right, chan, parked, batch, coll,
                   rxDropped, input, gaps, out, solo>>

\* gaps_handler without its guard
gap_never_malformed(gap_start, gap_end) == FALSE

\* gaps_handler's guard: the gap is inconsistent, it returns vec![]
gap_is_malformed(gap_start, gap_end) == gap_start > gap_end

\* a gaps_handler call and what it returned
\* (fetched: archives its nested stream handed to process_maps, fills:
\* archives the gap fills below it returned, got: archives it collected)
GapCall(gap_start, gap_end, archives) ==
    [called |-> TRUE, start |-> gap_start, stop |-> gap_end, ret |-> archives,
     fetched |-> 0, fills |-> 0, got |-> 0]
\* a pair that needed no gaps_handler call
NoGapCall == [called |-> FALSE, start |-> 0, stop |-> 0, ret |-> <<>>,
              fetched |-> 0, fills |-> 0, got |-> 0]

\* the producer task pulls the next archive (right) and takes its branch:
\* contiguous -> send left; otherwise gaps_handler(start, stop), which either
\* returns vec![] at once or enters the nested start_download
NextSome(d) ==
    /\ pc[d] = "next" /\ ~CanFill(d)
    /\ \E k \in ReadyPos(buf[d]) :
         LET r == buf[d][k].arch
             c == is_contiguous(left[d], r)
             g == get_distance(left[d], r)
         IN  /\ right' = [right EXCEPT ![d] = r]
             /\ input' = [input EXCEPT ![d] = Append(@, [idx |-> buf[d][k].idx, arch |-> r])]
             /\ buf' = [buf EXCEPT ![d] = Remove(@, k)]
             /\ IF ~is_some(c)
                THEN \* expect() panics: the task dies, tx is dropped
                     /\ pc' = [pc EXCEPT ![d] = "panicked"]
                     /\ UNCHANGED <<rng, nxt, gaps>>
                ELSE IF unwrap(c)
                THEN /\ pc' = [pc EXCEPT ![d] = "send_left"]
                     /\ gaps' = [gaps EXCEPT ![d] = Append(@, NoGapCall)]
                     /\ UNCHANGED <<rng, nxt>>
                ELSE IF ~is_some(g)
                THEN /\ pc' = [pc EXCEPT ![d] = "panicked"]
                     /\ UNCHANGED <<rng, nxt, gaps>>
                ELSE LET start == unwrap(g)[1]
                         stop == unwrap(g)[2]
                     IN  IF gap_is_malformed(start, stop)
                         THEN /\ pc' = [pc EXCEPT ![d] = "send_left"]
                              /\ gaps' = [gaps EXCEPT ![d] = Append(@, GapCall(start, stop, <<>>))]
                              /\ UNCHANGED <<rng, nxt>>
                         ELSE /\ d < MaxDepth
                              /\ pc' = [pc EXCEPT ![d] = "gap", ![d + 1] = "first"]
                              /\ rng' = [rng EXCEPT ![d + 1] =
                                           [step |-> gap_step, from |-> start, to |-> stop]]
                              /\ nxt' = [nxt EXCEPT ![d + 1] = start]
                              /\ UNCHANGED gaps
    /\ UNCHANGED <<left, chan, parked, batch, coll, ret, rxDropped, out, solo>>

\* a task that sends the archive it still holds when its stream ends
NextNoneFlush(d) ==
    /\ pc[d] = "next"
    /\ StreamEnd(d)
    /\ pc' = [pc EXCEPT ![d] = IF left[d] # NoMaps THEN "send_left" ELSE "done"]
    /\ UNCHANGED <<rng, nxt, buf, left, right, chan, parked, batch, coll, ret,
                   rxDropped, input, gaps, out, solo>>

\* stream.next() yields None in the producer task: the loop ends, the task
\* finishes and drops tx
NextNone(d) ==
    /\ pc[d] = "next"
    /\ StreamEnd(d)
    /\ pc' = [pc EXCEPT ![d] = "done"]
    /\ UNCHANGED <<rng, nxt, buf, left, right, chan, parked, batch, coll, ret,
                   rxDropped, input, gaps, out, solo>>


\* ------------------------------------------------------------ gaps_handler
\* level e is torn down once its caller has its result
Reset(f, e, v) == [f EXCEPT ![e] = v]

\* number of archives the gaps_handler calls of a history returned
RECURSIVE FillCount(_)
FillCount(hist) ==
    IF hist = <<>> THEN 0
    ELSE Len(hist[Len(hist)].ret) + FillCount(SubSeq(hist, 1, Len(hist) - 1))

\* a gaps_handler that returns what it collected as it is
gaps_result_no_dedup(collected) == collected

\* the archives gaps_handler returns for what it collected
gaps_result(collected) == dedup(collected)

\* the nested start_download returned None: gaps_handler returns vec![]
GapsNone(d) ==
    /\ d < MaxDepth
    /\ pc[d] = "gap" /\ pc[d + 1] = "none"
    /\ pc' = [pc EXCEPT ![d] = "send_left", ![d + 1] = "idle"]
    /\ gaps' = [gaps EXCEPT ![d] = Append(@, GapCall(rng[d + 1].from, rng[d + 1].to, <<>>)),
                            ![d + 1] = <<>>]
    /\ rng' = Reset(rng, d + 1, NoRange)
    /\ nxt' = Reset(nxt, d + 1, 0)
    /\ ret' = Reset(ret, d + 1, "pending")
    /\ input' = Reset(input, d + 1, <<>>)
    /\ out' = Reset(out, d + 1, <<>>)
    /\ UNCHANGED <<buf, left, right, chan, parked, batch, coll, rxDropped, solo>>

\* collect() of gaps_handler takes one archive off the nested stream
Collect(d) ==
    /\ d < MaxDepth
    /\ pc[d] = "gap" /\ ret[d + 1] = "Some"
    /\ chan[d + 1] # <<>>
    /\ coll' = [coll EXCEPT ![d] = Append(@, Head(chan[d + 1]))]
    /\ chan' = [chan EXCEPT ![d + 1] = Tail(@)]
    /\ parked' = [parked EXCEPT ![d + 1] = FALSE]
    /\ UNCHANGED <<pc, rng, nxt, buf, left, right, batch, ret, rxDropped,
                   input, gaps, out, solo>>

\* the nested stream ended (its task finished and the channel is drained):
\* gaps_handler dedups what it collected and returns it
CollectEnd(d) ==
    /\ d < MaxDepth
    /\ pc[d] = "gap" /\ ret[d + 1] = "Some"
    /\ pc[d + 1] \in {"done", "panicked"}
    /\ chan[d + 1] = <<>>
    /\ LET archives == gaps_result(coll[d])
       IN  /\ batch' = [batch EXCEPT ![d] = archives]
           /\ pc' = [pc EXCEPT ![d] = IF archives = <<>> THEN "send_left" ELSE "send_batch",
                               ![d + 1] = "idle"]
           /\ gaps' = [gaps EXCEPT ![d] = Append(@,
                                       [GapCall(rng[d + 1].from, rng[d + 1].to, archives)
                                           EXCEPT !.fetched = Len(input[d + 1]),
                                                  !.fills = FillCount(gaps[d + 1]),
                                                  !.got = Len(coll[d])]),
                                   ![d + 1] = <<>>]
    /\ coll' = [coll EXCEPT ![d] = <<>>]
    /\ rng' = Reset(rng, d + 1, NoRange)
    /\ nxt' = Reset(nxt, d + 1, 0)
    /\ ret' = Reset(ret, d + 1, "pending")
    /\ input' = Reset(input, d + 1, <<>>)
    /\ out' = Reset(out, d + 1, <<>>)
    /\ left' = Reset(left, d + 1, NoMaps)
    /\ right' = Reset(right, d + 1, NoMaps)
    /\ buf' = Reset(buf, d + 1, <<>>)
    /\ UNCHANGED <<chan, parked, rxDropped, solo>>

\* ------------------------------------------------------------- tx.send(..)
\* a producer that forwards the archive it just pulled instead of left
SendItemRight(d) == IF pc[d] = "send_batch" THEN Head(batch[d]) ELSE right[d]

\* what the pending send sends
SendItem(d) == IF pc[d] = "send_batch" THEN Head(batch[d]) ELSE left[d]

\* a sender that is parked one message later
MustParkLate(n) == n > ChannelBuffer + 1

\* Sender::start_send parks the sender when the message count exceeds the buffer
MustPark(n) == n > ChannelBuffer

\* a producer that leaves the for loop after the first archive of a batch
AfterSendFirstOnly(d, wasBatch) ==
    IF wasBatch
    THEN /\ batch' = [batch EXCEPT ![d] = <<>>]
         /\ pc' = [pc EXCEPT ![d] = "send_left"]
         /\ UNCHANGED <<left, right>>
    ELSE /\ left' = [left EXCEPT ![d] = right[d]]
         /\ right' = [right EXCEPT ![d] = NoMaps]
         /\ pc' = [pc EXCEPT ![d] = "next"]
         /\ UNCHANGED batch

\* the code after a completed send: next archive of the batch, then left,
\* then left = right and back to stream.next()
AfterSend(d, wasBatch) ==
    IF wasBatch
    THEN /\ batch' = [batch EXCEPT ![d] = Tail(@)]
         /\ pc' = [pc EXCEPT ![d] = IF Tail(batch[d]) = <<>> THEN "send_left" ELSE "send_batch"]
         /\ UNCHANGED <<left, right>>
    ELSE /\ left' = [left EXCEPT ![d] = right[d]]
         /\ right' = [right EXCEPT ![d] = NoMaps]
         /\ pc' = [pc EXCEPT ![d] = "next"]
         /\ UNCHANGED batch

\* tx.send(x).await up to the point the message is queued: Err when the
\* receiver is gone (the task logs and ends), otherwise the message is pushed
\* and the send completes unless the push parked the sender
Send(d) ==
    /\ pc[d] \in {"send_batch", "send_left"}
    /\ ~parked[d]
    /\ IF Closed(d)
       THEN /\ pc' = [pc EXCEPT ![d] = "stopped"]
            /\ buf' = [buf EXCEPT ![d] = <<>>]
            /\ batch' = [batch EXCEPT ![d] = <<>>]
            /\ UNCHANGED <<chan, parked, out, left, right>>
       ELSE /\ chan' = [chan EXCEPT ![d] = Append(@, SendItem(d))]
            /\ out' = [out EXCEPT ![d] = Append(@, SendItem(d))]
            /\ UNCHANGED buf
            /\ IF MustPark(Len(chan[d]) + 1)
               THEN /\ parked' = [parked EXCEPT ![d] = TRUE]
                    /\ pc' = [pc EXCEPT ![d] = IF pc[d] = "send_batch" THEN "flush_batch" ELSE "flush_left"]
                    /\ UNCHANGED <<batch, left, right>>
               ELSE /\ UNCHANGED parked
                    /\ AfterSend(d, pc[d] = "send_batch")
    /\ UNCHANGED <<rng, nxt, coll, ret, rxDropped, input, gaps, solo>>

\* poll_flush of a parked sender: completes once the receiver took a message
\* or went away
Flush(d) ==
    /\ pc[d] \in {"flush_batch", "flush_left"}
    /\ ~parked[d] \/ Closed(d)
    /\ AfterSend(d, pc[d] = "flush_batch")
    /\ UNCHANGED <<rng, nxt, buf, chan, parked, coll, ret, rxDropped, input,
                   gaps, out, solo>>

\* ---------------------------------------------------------------- consumer
\* a receiver that takes a message without waking the parked sender
ConsumeNoWake ==
    /\ ret[0] = "Some" /\ ~rxDropped
    /\ chan[0] # <<>>
    /\ chan' = [chan EXCEPT ![0] = Tail(@)]
    /\ UNCHANGED <<pc, rng, nxt, buf, left, right, parked, batch, coll, ret,
                   rxDropped, input, gaps, out, solo>>

\* the caller of the top-level start_download takes one archive off the stream
Consume ==
    /\ ret[0] = "Some" /\ ~rxDropped
    /\ chan[0] # <<>>
    /\ chan' = [chan EXCEPT ![0] = Tail(@)]
    /\ parked' = [parked EXCEPT ![0] = FALSE]
    /\ UNCHANGED <<pc, rng, nxt, buf, left, right, batch, coll, ret, rxDropped,
                   input, gaps, out, solo>>

\* the caller drops the stream: the channel closes, queued messages are
\* dropped and a parked sender is woken
DropStream ==
    /\ ret[0] = "Some" /\ ~rxDropped
    /\ rxDropped' = TRUE
    /\ chan' = [chan EXCEPT ![0] = <<>>]
    /\ parked' = [parked EXCEPT ![0] = FALSE]
    /\ UNCHANGED <<pc, rng, nxt, buf, left, right, batch, coll, ret,
                   input, gaps, out, solo>>

\* ------------------------------- a stand-alone download_archive_maps call
\* download_archive_maps(mc_seq_no) is called on its own
InitSolo ==
    /\ pc = [d \in Levels |-> "idle"]
    /\ rng = [d \in Levels |-> NoRange]
    /\ nxt = [d \in Levels |-> 0]
    /\ buf = [d \in Levels |-> <<>>]
    /\ left = [d \in Levels |-> NoMaps]
    /\ right = [d \in Levels |-> NoMaps]
    /\ chan = [d \in Levels |-> <<>>]
    /\ parked = [d \in Levels |-> FALSE]
    /\ batch = [d \in Levels |-> <<>>]
    /\ coll = [d \in Levels |-> <<>>]
    /\ ret = [d \in Levels |-> "pending"]
    /\ rxDropped = FALSE
    /\ input = [d \in Levels |-> <<>>]
    /\ gaps = [d \in Levels |-> <<>>]
    /\ out = [d \in Levels |-> <<>>]
    /\ \E n \in SoloSeqs : solo = [SoloOff EXCEPT !.seq = n, !.pc = "download"]

\* the transport answers a request of download_archive_or_die: on Err or
\* Ok(None) the inner loop asks again, on Ok(Some(a)) it returns the bytes
SoloResponse ==
    /\ solo.pc = "download"
    /\ \E resp \in Responses(solo.seq) :
         LET b == download_archive_or_die(resp)
         IN  /\ is_some(attempt(resp, solo.seq)) \/ solo.fails < MaxFails
             /\ solo' = [solo EXCEPT !.reqs = @ + 1,
                                     !.last = resp,
                                     !.fails = IF is_some(b) THEN @ ELSE @ + 1,
                                     !.pc = IF is_some(b) THEN "parse" ELSE "download",
                                     !.bytes = IF is_some(b) THEN unwrap(b) ELSE BadBytes]
    /\ UNCHANGED pipeVars

\* download_archive_maps parses the bytes and checks them: break a, or log
\* and go round the loop
SoloParse ==
    /\ solo.pc = "parse"
    /\ LET a == accept_archive(solo.bytes, solo.seq)
       IN  solo' = [solo EXCEPT !.pc = IF is_some(a) THEN "returned" ELSE "download",
                                !.fails = IF is_some(a) THEN @ ELSE @ + 1,
                                !.ret = IF is_some(a) THEN unwrap(a) ELSE NoMaps,
                                !.bytes = BadBytes]
    /\ UNCHANGED pipeVars

NextSolo ==
    \/ SoloResponse
    \/ SoloParse

SpecSolo == InitSolo /\ [][NextSolo]_vars

Next ==
    \/ \E d \in Levels : StartFetch(d)
    \/ \E d \in Levels : \E k \in 1..parallel_tasks : FetchRetry(d, k)
    \/ \E d \in Levels : \E k \in 1..parallel_tasks : FetchDone(d, k)
    \/ \E d \in Levels : FirstSome(d)
    \/ \E d \in Levels : FirstNone(d)
    \/ \E d \in Levels : NextSome(d)
    \/ \E d \in Levels : NextNone(d)
    \/ \E d \in Levels : GapsNone(d)
    \/ \E d \in Levels : Collect(d)
    \/ \E d \in Levels : CollectEnd(d)
    \/ \E d \in Levels : Send(d)
    \/ \E d \in Levels : Flush(d)
    \/ Consume
    \/ DropStream

Spec == Init /\ [][Next]_vars

\* the calls of Init and one more call at a stride above the slice over
\* MaxWideIdx + 1 indices: a gap fill of two or more indices can then run
\* while a fetch of the outer call is still in flight
InitSession ==
    \/ Init
    \/ InitCall(ARCHIVE_SLICE + 1, 1, MaxWideIdx + 1)

SpecSession == InitSession /\ [][Next]_vars

\* a step of the pipeline itself: a fetch that succeeds, or a step of the code
\* of start_download, process_maps or gaps_handler at some level
Progress ==
    \E d \in Levels :
        \/ StartFetch(d)
        \/ \E k \in 1..parallel_tasks : FetchDone(d, k)
        \/ FirstSome(d) \/ FirstNone(d) \/ NextSome(d) \/ NextNone(d)
        \/ GapsNone(d) \/ Collect(d) \/ CollectEnd(d)
        \/ Send(d) \/ Flush(d)

\* the runtime keeps polling a task that can run and every fetch eventually
\* succeeds; the consumer may read, stall or drop the stream
SpecFair == Spec /\ WF_vars(Progress)

\* as SpecFair, with a consumer that takes an archive whenever one is queued
\* for as long as it holds the stream
SpecLive == SpecFair /\ WF_vars(Consume)



\* ================================================================== claims
Active(d) == pc[d] # "idle"
IndicesOf(d) == Indices(rng[d].step, rng[d].from, rng[d].to)
Archs(hist) == [i \in 1..Len(hist) |-> hist[i].arch]
Running(d) == {k \in 1..Len(buf[d]) : buf[d][k].st = "run"}

\* C1: in every start_download call the i-th archive the stream hands to
\* process_maps is the one fetched for the i-th index of the strided range,
\* whatever the order the fetches complete in, and a stream that ran to its
\* end handed over one archive per index.
C1_StreamInIndexOrder ==
    \A d \in Levels :
        /\ Len(input[d]) <= Len(IndicesOf(d))
        /\ \A i \in 1..Len(input[d]) : input[d][i].idx = IndicesOf(d)[i]
        /\ pc[d] \in {"done", "none"} => Len(input[d]) = Len(IndicesOf(d))

\* a later fetch finished while the fetch before it is still running, and the
\* stream has already handed archives over
C1_Witness ==
    \E d \in Levels :
        /\ Len(buf[d]) = 2
        /\ buf[d][1].st = "run" /\ buf[d][2].st = "done"
        /\ Len(input[d]) >= 1

\* C2: within one start_download call the number of fetches started and not
\* yet returned never exceeds parallel_tasks.
C2_InFlightBounded ==
    \A d \in Levels : Cardinality(Running(d)) <= parallel_tasks

\* parallel_tasks fetches are in flight and the range has indices left
C2_Witness ==
    \E d \in Levels :
        /\ Cardinality(Running(d)) = parallel_tasks
        /\ nxt[d] < rng[d].to


\* C3: download_archive_maps(mc_seq_no) never returns an invalid result: what
\* it returns is the successful parse of the bytes the transport returned
\* last for mc_seq_no, and it reports itself valid for mc_seq_no.
C3_ReturnsOnlyValid ==
    solo.pc = "returned" =>
        /\ solo.last.kind = "data"
        /\ parse_archive(solo.last.data) = Some(solo.ret)
        /\ is_some(is_valid(solo.ret, solo.seq))

\* the call returned after it had discarded at least one attempt
C3_Witness == solo.pc = "returned" /\ solo.fails >= 1

\* the transport served an archive for n (not an error, not "no archive",
\* not malformed bytes, not an archive that does not hold n)
ServedValid(resp, n) ==
    /\ resp.kind = "data"
    /\ \E a \in ArchivesFor(n) : resp.data = Encode(a)

\* C4: download_archive_maps does not return on a failing attempt (transport
\* error, no archive found, unparseable bytes, parsed-but-not-valid archive)
\* and retries after each; it returns on the first attempt that serves a
\* valid archive, attempt N+1 after N failures, with that archive and
\* without a further request.
C4_RetryUntilValid ==
    [][/\ (solo'.pc = "returned" /\ solo.pc # "returned") =>
              /\ ServedValid(solo.last, solo.seq)
              /\ solo'.last = solo.last
              /\ Encode(solo'.ret) = solo.last.data
              /\ solo'.reqs = solo.reqs
              /\ solo'.reqs = solo'.fails + 1
       /\ (solo.pc = "parse" /\ ServedValid(solo.last, solo.seq)) =>
              solo'.pc = "returned"
       /\ (solo.pc = "parse" /\ ~ServedValid(solo.last, solo.seq)) =>
              (solo'.pc = "download" /\ solo'.fails = solo.fails + 1)
       /\ (solo.pc = "download" /\ solo'.last.kind # "data") =>
              (solo'.pc = "download" /\ solo'.fails = solo.fails + 1
               /\ solo'.reqs = solo.reqs + 1)
       /\ solo.pc = "returned" => solo' = solo
      ]_vars

\* the call returned on attempt MaxFails + 1, after failures of several kinds
C4_Witness ==
    /\ solo.pc = "returned"
    /\ solo.fails = MaxFails
    /\ solo.reqs = MaxFails + 1


\* sequence numbers an archive holds, and those a list of archives holds
Covered(a) == a.lo..a.hi
CoveredBy(archives) == UNION {Covered(archives[i]) : i \in 1..Len(archives)}
Contiguous(a, b) == is_contiguous(a, b) = Some(TRUE)
PairwiseContiguous(as) == \A i \in 1..(Len(as) - 1) : Contiguous(as[i], as[i + 1])
IsPrefix(s, t) == Len(s) <= Len(t) /\ SubSeq(t, 1, Len(s)) = s

\* C5: in the final output of a top-level start_download, consecutive
\* archives a, b of the downloaded range are contiguous, or the archives the
\* gap filler inserted for them cover every sequence number between them.
C5_OutputGapFree ==
    pc[0] = "done" =>
        \A i \in 1..(Len(input[0]) - 2) :
            LET a == input[0][i].arch
                b == input[0][i + 1].arch
            IN  \/ Contiguous(a, b)
                \/ (a.hi + 1)..(b.lo - 1) \subseteq CoveredBy(gaps[0][i].ret)

\* C6: for every gap with gap_start <= gap_end, a single sequence number
\* included, the list gaps_handler returns covers every sequence number of
\* the gap.
C6_GapFillCoversGap ==
    \A d \in Levels : \A i \in 1..Len(gaps[d]) :
        (gaps[d][i].called /\ gaps[d][i].start <= gaps[d][i].stop) =>
            gaps[d][i].start..gaps[d][i].stop \subseteq CoveredBy(gaps[d][i].ret)

\* C7: while the archives a top-level start_download fetched are pairwise
\* contiguous, gaps_handler is not invoked and the output is those archives
\* in index order without the last one: exactly the first n-1 of n when the
\* producer has finished.
C7_ContiguousRun ==
    LET a == Archs(input[0])
    IN  (Len(a) >= 1 /\ PairwiseContiguous(a)) =>
            /\ pc[0] # "gap"
            /\ \A i \in 1..Len(gaps[0]) : ~gaps[0][i].called
            /\ IsPrefix(out[0], a)
            /\ Len(out[0]) <= Len(a) - 1
            /\ pc[0] = "done" => out[0] = SubSeq(a, 1, Len(a) - 1)

\* three contiguous archives were fetched, the producer finished and two
\* were emitted
C7_Witness ==
    /\ pc[0] = "done"
    /\ Len(input[0]) = 3
    /\ PairwiseContiguous(Archs(input[0]))
    /\ Len(out[0]) = 2

\* G_1, a_1, ..., G_k, a_k for the first k pairs of level d
RECURSIVE Spliced(_, _)
Spliced(d, k) ==
    IF k = 0 THEN <<>>
    ELSE Spliced(d, k - 1) \o gaps[d][k].ret \o <<input[d][k].arch>>

\* C8: the output of process_maps is G_1, a_1, ..., G_{n-1}, a_{n-1} for the
\* input a_1..a_n: G_i is empty when a_i and a_{i+1} are contiguous, and
\* otherwise the list gaps_handler returned for get_distance(a_i, a_{i+1}),
\* in the order returned; every a_i with i < n is emitted once, in input order.
C8_OutputIsSpliced ==
    \A d \in Levels :
        LET k == Len(gaps[d])
        IN  /\ k <= Len(input[d])
            /\ \A i \in 1..k :
                 LET a == input[d][i].arch
                     b == input[d][i + 1].arch
                 IN  /\ i + 1 <= Len(input[d])
                     /\ gaps[d][i].called = ~Contiguous(a, b)
                     /\ gaps[d][i].called =>
                            <<gaps[d][i].start, gaps[d][i].stop>> = unwrap(get_distance(a, b))
                     /\ ~gaps[d][i].called => gaps[d][i].ret = <<>>
            /\ IsPrefix(out[d], Spliced(d, k))
            /\ k >= 1 => IsPrefix(Spliced(d, k - 1), out[d])
            /\ pc[d] \in {"next", "done"} =>
                 (out[d] = Spliced(d, k) /\ k = Len(input[d]) - 1)

\* the producer finished after it spliced a gap fill of two archives in
\* front of the left archive
C8_Witness ==
    /\ pc[0] = "done"
    /\ Len(gaps[0]) >= 1
    /\ Len(gaps[0][1].ret) = 2
    /\ Len(out[0]) = 3

\* C9: start_download over an empty range (from >= to) returns None, not a
\* stream: no fetch is started and the producer task is not spawned.
C9_EmptyRangeIsNone ==
    \A d \in Levels :
        (Active(d) /\ rng[d].from >= rng[d].to) =>
            /\ buf[d] = <<>> /\ nxt[d] = rng[d].from
            /\ input[d] = <<>> /\ out[d] = <<>> /\ chan[d] = <<>>
            /\ pc[d] \in {"first", "none"}
            /\ ret[d] \in {"pending", "None"}
            /\ pc[d] = "none" <=> ret[d] = "None"

\* a call over an empty range returned None
C9_Witness ==
    \E d \in Levels :
        /\ rng[d].from >= rng[d].to
        /\ pc[d] = "none" /\ ret[d] = "None"

\* C10: gaps_handler called with gap_start > gap_end returns an empty list,
\* does not panic, starts no fetch and no nested start_download; the producer
\* then sends left and goes on with the next archive.
C10_MalformedGap ==
    [][\A d \in Levels :
         /\ (pc[d] = "next" /\ pc'[d] \notin {"next", "done"}) =>
              LET c == is_contiguous(left[d], right'[d])
                  g == get_distance(left[d], right'[d])
              IN  (is_some(c) /\ ~unwrap(c) /\ is_some(g) /\ unwrap(g)[1] > unwrap(g)[2]) =>
                      /\ pc'[d] = "send_left"
                      /\ gaps'[d] = Append(gaps[d], GapCall(unwrap(g)[1], unwrap(g)[2], <<>>))
                      /\ left'[d] = left[d]
                      /\ d < MaxDepth => (pc'[d + 1] = "idle" /\ buf'[d + 1] = <<>>)
         /\ (pc[d] = "send_left" /\ out'[d] # out[d]) =>
              /\ out'[d] = Append(out[d], left[d])
              /\ pc'[d] \in {"next", "flush_left"}
         /\ (pc[d] = "flush_left" /\ pc'[d] # pc[d]) => pc'[d] = "next"
      ]_vars

\* a malformed gap was met, left was sent and the producer is back at the
\* stream
C10_Witness ==
    \E d \in Levels :
        LET k == Len(gaps[d])
        IN  /\ k >= 1
            /\ gaps[d][k].called /\ gaps[d][k].start > gaps[d][k].stop
            /\ gaps[d][k].ret = <<>>
            /\ pc[d] = "next"
            /\ Len(out[d]) >= 1 /\ out[d][Len(out[d])] = input[d][k].arch

\* C11 (as stated): each nested level re-scans with a stride strictly smaller
\* than that of the level that detected the gap, namely half that level's
\* stride minus one.
C11_StrideHalvesPerLevel ==
    \A d \in 1..MaxDepth :
        Active(d) => /\ rng[d].step < rng[d - 1].step
                     /\ rng[d].step = (rng[d - 1].step \div 2) - 1

\* C11 (amended): every nested gap-fill level re-scans with the fixed stride
\* (ARCHIVE_SLICE / 2) - 1 = 49, whatever the stride of the level that
\* detected the gap; from the second nested level on the stride is the same
\* as one level up, so it does not shrink with depth.
C11_StrideIsHalfSliceMinusOne ==
    /\ \A d \in 1..MaxDepth :
          Active(d) => rng[d].step = (ARCHIVE_SLICE \div 2) - 1
    /\ \A d \in 2..MaxDepth :
          Active(d) => rng[d].step = rng[d - 1].step

\* a gap fill inside a gap fill is running: both re-scan with stride 49
C11_Witness ==
    /\ Active(1) /\ Active(2)
    /\ rng[1].step = 49 /\ rng[2].step = 49
    /\ pc[0] = "gap" /\ pc[1] = "gap"

NoAdjacentEqual(s) == \A i \in 1..(Len(s) - 1) : s[i] # s[i + 1]

\* C12: the list a gaps_handler call returns (and so the batch process_maps
\* sends from it) never holds two adjacent equal archives, whatever the nested
\* download produced.
C12_NoAdjacentDuplicates ==
    \A d \in Levels :
        /\ NoAdjacentEqual(batch[d])
        /\ \A i \in 1..Len(gaps[d]) : NoAdjacentEqual(gaps[d][i].ret)

\* a gaps_handler call collected the same archive twice in a row from its
\* nested download and returned it once
C12_Witness ==
    \E d \in Levels : \E i \in 1..Len(gaps[d]) :
        /\ gaps[d][i].called
        /\ gaps[d][i].got > Len(gaps[d][i].ret)
        /\ gaps[d][i].ret # <<>>

Flushing(d) == pc[d] \in {"flush_batch", "flush_left"}

\* C13 (as stated): a channel of process_maps holds at most one sent but
\* unconsumed archive, and while it holds one the producer neither awaits the
\* next archive of its input stream nor runs a gap fill.
C13_AtMostOneUnconsumed ==
    \A d \in Levels :
        /\ Len(chan[d]) <= 1
        /\ Len(chan[d]) = 1 => ~Polling(d) /\ pc[d] # "gap"

\* C13 (amended): a channel of process_maps holds at most two sent but
\* unconsumed archives (the buffer of 1 plus the slot of the single sender);
\* the first send into an empty channel completes at once, and while two are
\* queued the producer is parked in its send, where it neither awaits the next
\* archive of its input stream nor runs a gap fill until one is consumed.
C13_AtMostTwoUnconsumed ==
    \A d \in Levels :
        /\ Len(chan[d]) <= ChannelBuffer + 1
        /\ Len(chan[d]) = ChannelBuffer + 1 =>
              /\ parked[d] /\ Flushing(d)
              /\ ~Polling(d) /\ pc[d] # "gap"
        /\ parked[d] /\ ~Closed(d) => Len(chan[d]) = ChannelBuffer + 1

\* two archives are queued for the consumer and the producer is parked in the
\* send of the second
C13_Witness ==
    /\ Len(chan[0]) = 2
    /\ pc[0] = "flush_left" /\ parked[0]
    /\ ~rxDropped

Sending(d) == pc[d] \in {"send_batch", "send_left"}

\* C14: a send of the top-level producer task that starts after the consumer
\* dropped the stream fails, in the contiguous branch, in the gap branch and
\* in the middle of a gap-fill batch alike; the task then ends: it sends
\* nothing more, takes no further archive from its input stream, starts no
\* fetch and no gap fill, and what start_download returned to its caller stays
\* as it was.
C14_FailedSendEndsProducer ==
    [][/\ (Sending(0) /\ rxDropped /\ pc'[0] # pc[0]) =>
              /\ pc'[0] = "stopped"
              /\ out'[0] = out[0] /\ chan'[0] = chan[0]
              /\ ret' = ret
       /\ pc[0] = "stopped" =>
              /\ pc'[0] = "stopped"
              /\ out'[0] = out[0] /\ chan'[0] = chan[0]
              /\ input'[0] = input[0] /\ nxt'[0] = nxt[0] /\ buf'[0] = buf[0]
              /\ gaps'[0] = gaps[0] /\ pc'[1] = "idle"
              /\ ret' = ret
      ]_vars

\* the consumer went away in the middle of a gap-fill batch of two archives:
\* the first one was sent, the send of the second failed and the task ended
\* (left was never sent)
C14_Witness ==
    /\ pc[0] = "stopped" /\ rxDropped
    /\ Len(gaps[0]) = 1 /\ Len(gaps[0][1].ret) = 2
    /\ out[0] = <<gaps[0][1].ret[1]>>
    /\ ret[0] = "Some"

\* the archives process_maps of level d holds or has been handed
HeldBy(d) ==
    {input[d][i].arch : i \in 1..Len(input[d])}
        \cup {a \in {left[d], right[d]} : a # NoMaps}

\* C15: the producer task never panics, at the top level or in a nested gap
\* fill: every archive a stream hands to process_maps passed the validity
\* check of download_archive_maps for its index, so it is non-empty, and
\* is_contiguous and get_distance give Some for every pair process_maps
\* compares.
C15_NoPanic ==
    \A d \in Levels :
        /\ pc[d] # "panicked"
        /\ \A i \in 1..Len(input[d]) :
              is_some(is_valid(input[d][i].arch, input[d][i].idx))
        /\ \A k \in 1..Len(buf[d]) :
              buf[d][k].st = "done" => is_some(is_valid(buf[d][k].arch, buf[d][k].idx))
        /\ \A a \in HeldBy(d) : ~is_empty(a)
        /\ \A l \in HeldBy(d), r \in HeldBy(d) :
              is_some(is_contiguous(l, r)) /\ is_some(get_distance(l, r))

\* both expects have been passed at the top level and inside a gap fill: the
\* nested process_maps compared a pair and called gaps_handler for it
C15_Witness ==
    /\ pc[0] = "gap" /\ Len(input[0]) >= 2
    /\ Len(input[1]) >= 2
    /\ Len(gaps[1]) >= 1 /\ gaps[1][1].called
    /\ \A d \in Levels : pc[d] # "panicked"

\* C16: the output of a top-level start_download is ordered by sequence
\* number: every archive sent starts above the highest sequence number of
\* every archive sent before it, gap-fill archives included.
C16_OutputOrdered ==
    \A i \in 1..Len(out[0]) : \A j \in (i + 1)..Len(out[0]) :
        out[0][j].lo > out[0][i].hi

\* C17: when every fetch eventually succeeds, every gaps_handler call
\* eventually returns; a nested gap fill runs over a range strictly inside
\* the range of the call that detected the gap, which bounds the depth of the
\* recursion (the deepest level modelled is never entered).
C17_GapsHandlerReturns ==
    /\ [](\A d \in 1..MaxDepth :
             Active(d) /\ Active(d - 1) =>
                 /\ rng[d].from > rng[d - 1].from
                 /\ rng[d].to < rng[d - 1].to)
    /\ [](~Active(MaxDepth))
    /\ \A d \in Levels : (pc[d] = "gap") ~> (pc[d] # "gap")

\* a gaps_handler call made inside a gap fill has collected its nested stream
\* and returned while the outer call is still running
C17_Witness ==
    /\ pc[0] = "gap" /\ Active(1)
    /\ \E i \in 1..Len(gaps[1]) :
          gaps[1][i].called /\ gaps[1][i].start <= gaps[1][i].stop

\* the top-level call has run to its end: start_download returned None for an
\* empty range, or the producer task ended after its stream did, having taken
\* one archive per index and sent every one but the last, and the consumer
\* has read all that was sent; no nested call is left running
Finished ==
    /\ \A d \in 1..MaxDepth : ~Active(d)
    /\ chan[0] = <<>> /\ buf[0] = <<>>
    /\ \/ pc[0] = "none" /\ IndicesOf(0) = <<>>
       \/ /\ pc[0] = "done"
          /\ Len(input[0]) = Len(IndicesOf(0))
          /\ \A i \in 1..(Len(input[0]) - 1) :
                \E j \in 1..Len(out[0]) : out[0][j] = input[0][i].arch

\* C18: when every fetch eventually succeeds, the runtime keeps polling and
\* the consumer keeps reading (it never drops the stream), a top-level
\* start_download over n indices eventually has every archive a_i, i < n,
\* sent and consumed and its stream ended: producer, buffered fetches and
\* consumer never block each other for good.
C18_EventuallyFinished == <>(rxDropped \/ Finished)

\* a run over two or more indices with a gap fill has ended and the consumer
\* has read everything
C18_Witness ==
    /\ Finished /\ ~rxDropped
    /\ pc[0] = "done" /\ Len(input[0]) >= 2
    /\ \E i \in 1..Len(gaps[0]) : gaps[0][i].ret # <<>>
    /\ Len(out[0]) >= 3

RECURSIVE RunningUpTo(_)
RunningUpTo(d) ==
    Cardinality(Running(d)) + (IF d = 0 THEN 0 ELSE RunningUpTo(d - 1))

\* fetches started and not yet returned, over the top-level call and every
\* nested call
SessionRunning == RunningUpTo(MaxDepth)

\* C19: counted over a top-level start_download and all the nested calls made
\* by gap filling, never more than parallel_tasks fetches are started and not
\* yet returned.
C19_SessionBounded == SessionRunning <= parallel_tasks

\* C20: a gaps_handler call whose nested start_download returned a stream
\* collects exactly what the nested process_maps spliced for all pairs of its
\* input, i.e. every fetched archive but the one of the last index of the
\* strided range, which the nested task still holds as left when its stream
\* ends; over a range with a single index (0 < gap_end - gap_start <= 49) it
\* fetched the archive for gap_start and returns an empty list.
C20_FillOmitsLastArchive ==
    [][\A d \in 0..(MaxDepth - 1) :
          (pc[d] = "gap" /\ pc'[d] # "gap" /\ ret[d + 1] = "Some") =>
              LET n == Len(input[d + 1])
                  g == gaps'[d][Len(gaps'[d])]
              IN  /\ n >= 1 /\ n = Len(IndicesOf(d + 1))
                  /\ input[d + 1][n].idx = IndicesOf(d + 1)[n]
                  /\ left[d + 1] = input[d + 1][n].arch
                  /\ coll[d] = Spliced(d + 1, n - 1)
                  /\ g.got = g.fills + n - 1
                  /\ Len(g.ret) <= g.got
                  /\ (0 < rng[d + 1].to - rng[d + 1].from
                        /\ rng[d + 1].to - rng[d + 1].from <= (ARCHIVE_SLICE \div 2) - 1) =>
                         /\ n = 1 /\ input[d + 1][1].idx = rng[d + 1].from
                         /\ coll[d] = <<>> /\ g.ret = <<>>
      ]_vars

\* inside a gap fill over three indices that is still running, a gaps_handler
\* call over a single-index range fetched one archive and returned nothing
C20_Witness ==
    /\ pc[0] = "gap"
    /\ \E i \in 1..Len(gaps[1]) :
          /\ gaps[1][i].called
          /\ 0 < gaps[1][i].stop - gaps[1][i].start
          /\ gaps[1][i].stop - gaps[1][i].start <= 49
          /\ gaps[1][i].fetched = 1
          /\ gaps[1][i].ret = <<>>

====
